---- MODULE Spec2Model ----
(***************************************************************************)
(* Model of FuzzManagerCollector:                                          *)
(*   - Collector.submit (src/Collector.py): the remote checks and the POST *)
(*     loop with its exponential backoff,                                  *)
(*   - NumberMatch and StringMatch (src/Signatures/Matchers.py): their     *)
(*     construction from a descriptor, matches() and __repr__.             *)
(* Text is modelled as a sequence of one-character strings, so that        *)
(* slicing, splitting, lower-casing and base-16 parsing are computed.      *)
(* Python's None is the empty sequence None, a present value v is <<v>>.   *)
(***************************************************************************)
EXTENDS Integers, Sequences, FiniteSets, TLC

VARIABLES
    \* Collector (src/Collector.py)
    serverHost, serverAuthToken, tool,  \* configuration of the Collector object
    sigCacheDir,       \* configuration of the Collector object
    pc,                \* position of the one submit or refresh call
    current_timeout,   \* local of submit
    response,          \* last response of requests.post
    posts,             \* number of POSTs sent so far
    gets,              \* number of GETs sent so far
    sleeps,            \* the time.sleep durations performed so far, in order
    outcome,           \* "none", "returned" or "raised"
    error,             \* the exception raised by submit
    \* NumberMatch (src/Signatures/Matchers.py)
    numObj,            \* the descriptor given to NumberMatch(obj)
    numPred,           \* the result of the construction
    numQuery,          \* the last matches(value) call: its argument and result
    \* StringMatch (src/Signatures/Matchers.py)
    strObj,            \* the descriptor given to StringMatch(obj)
    strPred,           \* the result of the construction
    strQuery,          \* the last matches(val) call
    strRepr            \* the last repr() result

collectorVars == <<serverHost, serverAuthToken, tool, sigCacheDir, pc,
                   current_timeout, response, posts, gets, sleeps, outcome,
                   error>>
numberVars == <<numObj, numPred, numQuery>>
stringVars == <<strObj, strPred, strQuery, strRepr>>
vars == <<collectorVars, numberVars, stringVars>>

None == <<>>
Some(v) == <<v>>

(***************************************************************************)
(* Collector.submit                                                        *)
(***************************************************************************)

\* requests.codes["created"]
created == 201
\* requests.codes["ok"]
codes_ok == 200
\* current_timeout = 2
initial_timeout == 2
\* ... and current_timeout <= 64
max_timeout == 64
retry_codes == {500, 502, 503, 504}

\* The status codes and bodies the server answers with in the model.
StatusCodes == {200, 201, 400, 404, 500, 502, 503, 504}
Texts == {"", "busy"}
Settings == {None, Some("set")}

NoResponse == [status_code |-> 0, text |-> ""]
NoError == [type |-> "none", status_code |-> 0, text |-> "", setting |-> ""]

\* `not x` of a configuration attribute: None and the empty string are falsy.
Falsy(x) == x = None \/ x = Some("")

\* The retry condition of the loop (MayRetry), after two faulty variants of
\* it: one with the bound on the timeout doubled, one that retries on every
\* status but 201.
MayRetryLate(status, timeout) ==
    status \in retry_codes /\ timeout <= 2 * max_timeout
MayRetryAnyStatus(status, timeout) == status # created /\ timeout <= max_timeout
MayRetry(status, timeout) == status \in retry_codes /\ timeout <= max_timeout

\* Collector.__serverError(response)
\* (ServerErrorNoText: the same without the response text.)
ServerErrorNoText(resp) ==
    [type |-> "RuntimeError", status_code |-> resp.status_code,
     text |-> "", setting |-> ""]
ServerError(resp) ==
    [type |-> "RuntimeError", status_code |-> resp.status_code,
     text |-> resp.text, setting |-> ""]

ConfigError(name) ==
    [type |-> "RuntimeError", status_code |-> 0, text |-> "", setting |-> name]

InitCollector ==
    /\ serverHost \in Settings
    /\ serverAuthToken \in Settings
    /\ tool \in Settings
    /\ sigCacheDir \in Settings
    /\ gets = 0
    /\ pc = "idle"
    /\ current_timeout = 0
    /\ response = NoResponse
    /\ posts = 0
    /\ sleeps = <<>>
    /\ outcome = "none"
    /\ error = NoError

\* The decorator remote_checks: the setting its RuntimeError names, or
\* "pass" when the decorated method is entered.
remote_checks ==
    IF Falsy(serverHost) THEN "serverHost"
    ELSE IF Falsy(serverHost) THEN "serverAuthToken"
    ELSE IF Falsy(tool) THEN "tool"
    ELSE "pass"

\* The decorator signature_checks.
signature_checks == IF Falsy(sigCacheDir) THEN "sigCacheDir" ELSE "pass"

\* submit is called: the remote_checks decorator, then the serialisation of
\* the crash record (no state of the model) and current_timeout = 2.
CallSubmit ==
    /\ pc = "idle"
    /\ IF remote_checks # "pass"
         THEN /\ pc' = "done" /\ outcome' = "raised"
              /\ error' = ConfigError(remote_checks)
              /\ UNCHANGED current_timeout
         ELSE /\ pc' = "post" /\ current_timeout' = initial_timeout
              /\ UNCHANGED <<outcome, error>>
    /\ UNCHANGED <<gets, sigCacheDir, serverHost, serverAuthToken, tool, response, posts, sleeps>>
    /\ UNCHANGED <<numberVars, stringVars>>

\* refresh is called: the remote_checks and signature_checks decorators.
CallRefresh ==
    /\ pc = "idle"
    /\ IF remote_checks # "pass"
         THEN /\ pc' = "done" /\ outcome' = "raised"
              /\ error' = ConfigError(remote_checks)
         ELSE IF signature_checks # "pass"
         THEN /\ pc' = "done" /\ outcome' = "raised"
              /\ error' = ConfigError(signature_checks)
         ELSE /\ pc' = "get" /\ UNCHANGED <<outcome, error>>
    /\ UNCHANGED <<gets, sigCacheDir, serverHost, serverAuthToken, tool, current_timeout,
                   response, posts, sleeps>>
    /\ UNCHANGED <<numberVars, stringVars>>

\* response = requests.get(url, ...), then the raise of the server error for
\* a status other than 200, or the download and refreshFromZip (files only).
Get ==
    /\ pc = "get"
    /\ \E s \in StatusCodes, t \in Texts :
          /\ response' = [status_code |-> s, text |-> t]
          /\ IF s # codes_ok
               THEN /\ outcome' = "raised"
                    /\ error' = ServerError([status_code |-> s, text |-> t])
               ELSE /\ outcome' = "returned" /\ UNCHANGED error
    /\ gets' = gets + 1
    /\ pc' = "done"
    /\ UNCHANGED <<sigCacheDir, serverHost, serverAuthToken, tool, current_timeout,
                   posts, sleeps>>
    /\ UNCHANGED <<numberVars, stringVars>>

\* response = requests.post(url, data, headers=...)
Post ==
    /\ pc = "post"
    /\ \E s \in StatusCodes, t \in Texts :
          response' = [status_code |-> s, text |-> t]
    /\ posts' = posts + 1
    /\ pc' = "respond"
    /\ UNCHANGED <<gets, sigCacheDir, serverHost, serverAuthToken, tool, current_timeout, sleeps,
                   outcome, error>>
    /\ UNCHANGED <<numberVars, stringVars>>

\* time.sleep(current_timeout); current_timeout *= 2; continue
SleepAndRetry ==
    /\ pc = "respond"
    /\ response.status_code # created
    /\ MayRetry(response.status_code, current_timeout)
    /\ sleeps' = Append(sleeps, current_timeout)
    /\ current_timeout' = current_timeout * 2
    /\ pc' = "post"
    /\ UNCHANGED <<gets, sigCacheDir, serverHost, serverAuthToken, tool, response, posts,
                   outcome, error>>
    /\ UNCHANGED <<numberVars, stringVars>>

\* raise self.__serverError(response)
RaiseServerError ==
    /\ pc = "respond"
    /\ response.status_code # created
    /\ ~MayRetry(response.status_code, current_timeout)
    /\ pc' = "done"
    /\ outcome' = "raised"
    /\ error' = ServerError(response)
    /\ UNCHANGED <<gets, sigCacheDir, serverHost, serverAuthToken, tool, current_timeout,
                   response, posts, sleeps>>
    /\ UNCHANGED <<numberVars, stringVars>>

\* else: break (submit returns)
Break ==
    /\ pc = "respond"
    /\ response.status_code = created
    /\ pc' = "done"
    /\ outcome' = "returned"
    /\ UNCHANGED <<gets, sigCacheDir, serverHost, serverAuthToken, tool, current_timeout,
                   response, posts, sleeps, error>>
    /\ UNCHANGED <<numberVars, stringVars>>

(***************************************************************************)
(* Text helpers (Python 2 str methods, as the code uses them)              *)
(***************************************************************************)

Whitespace == {" ", "\t", "\n"}

\* All texts over `chars` of length at most n.
Strings(chars, n) == UNION {[1..k -> chars] : k \in 0..n}

\* s[i:] for a 1-based index i
Tail_(s, i) == SubSeq(s, i, Len(s))

\* s.startswith(p) and s.endswith(p)
StartsWith(s, p) == Len(s) >= Len(p) /\ SubSeq(s, 1, Len(p)) = p
EndsWith(s, p) ==
    Len(s) >= Len(p) /\ SubSeq(s, Len(s) - Len(p) + 1, Len(s)) = p

\* The first index >= i of s that holds no character of `set` (Len(s)+1 if none).
RECURSIVE SkipWhile(_, _, _)
SkipWhile(s, i, set) ==
    IF i <= Len(s) /\ s[i] \in set THEN SkipWhile(s, i + 1, set) ELSE i

\* The first index >= i of s that holds a character of `set` (Len(s)+1 if none).
RECURSIVE SkipUntil(_, _, _)
SkipUntil(s, i, set) ==
    IF i <= Len(s) /\ s[i] \notin set THEN SkipUntil(s, i + 1, set) ELSE i

\* obj.split(None, 1): at most two tokens; the second is the rest of the text
\* after the whitespace that follows the first token, trailing whitespace kept.
SplitOnce(s) ==
    LET i == SkipWhile(s, 1, Whitespace)
        j == SkipUntil(s, i, Whitespace)
        k == SkipWhile(s, j, Whitespace)
    IN  IF i > Len(s) THEN <<>>
        ELSE IF k > Len(s) THEN <<SubSeq(s, i, j - 1)>>
        ELSE <<SubSeq(s, i, j - 1), Tail_(s, k)>>

HexDigits == {"0", "1", "7", "a", "f", "A", "F"}
HexDigitValue(c) ==
    CASE c = "0" -> 0 [] c = "1" -> 1 [] c = "7" -> 7
      [] c \in {"a", "A"} -> 10 [] c \in {"f", "F"} -> 15

RECURSIVE HexValue(_)
HexValue(s) ==
    IF s = <<>> THEN 0
    ELSE 16 * HexValue(SubSeq(s, 1, Len(s) - 1)) + HexDigitValue(s[Len(s)])

\* long(s, 16) of Python 2: surrounding whitespace, a sign (whitespace may
\* follow it), an optional 0x prefix, at least one hex digit, an optional
\* L suffix.  None stands for the ValueError.
\* (LongBase16NoSign: the same parser without the sign.)
LongBase16NoSign(s) ==
    LET i1 == SkipWhile(s, 1, Whitespace)
        i3 == IF i1 + 1 <= Len(s) /\ s[i1] = "0" /\ s[i1 + 1] \in {"x", "X"}
                THEN i1 + 2 ELSE i1
        i4 == SkipWhile(s, i3, HexDigits)
        i5 == IF i4 <= Len(s) /\ s[i4] \in {"L", "l"} THEN i4 + 1 ELSE i4
        i6 == SkipWhile(s, i5, Whitespace)
    IN  IF i4 = i3 \/ i6 <= Len(s) THEN None
        ELSE Some(HexValue(SubSeq(s, i3, i4 - 1)))
LongBase16(s) ==
    LET i1 == SkipWhile(s, 1, Whitespace)
        signed == i1 <= Len(s) /\ s[i1] \in {"+", "-"}
        sign == IF i1 <= Len(s) /\ s[i1] = "-" THEN -1 ELSE 1
        i2 == SkipWhile(s, IF signed THEN i1 + 1 ELSE i1, Whitespace)
        i3 == IF i2 + 1 <= Len(s) /\ s[i2] = "0" /\ s[i2 + 1] \in {"x", "X"}
                THEN i2 + 2 ELSE i2
        i4 == SkipWhile(s, i3, HexDigits)
        i5 == IF i4 <= Len(s) /\ s[i4] \in {"L", "l"} THEN i4 + 1 ELSE i4
        i6 == SkipWhile(s, i5, Whitespace)
    IN  IF i4 = i3 \/ i6 <= Len(s) THEN None
        ELSE Some(sign * HexValue(SubSeq(s, i3, i4 - 1)))

(***************************************************************************)
(* NumberMatch                                                             *)
(***************************************************************************)

\* A descriptor: its Python type and its text or its number.
StrObj(s) == [type |-> "str", s |-> s, n |-> 0]
IntObj(n) == [type |-> "int", s |-> <<>>, n |-> n]
OtherObj(t) == [type |-> t, s |-> <<>>, n |-> 0]

\* The outcome of a construction: the object's fields, or the exception.
NumberOk(value, matchType) ==
    [ok |-> TRUE, exc |-> "none", msg |-> "none", text |-> <<>>,
     value |-> value, matchType |-> matchType]
NumberFail(exc, msg, text) ==
    [ok |-> FALSE, exc |-> exc, msg |-> msg, text |-> text,
     value |-> None, matchType |-> "None"]

\* The if/elif chain over the operator token: the matchType it sets
\* ("None" for "=="), or "unknown" for the else branch.
\* (OperatorOfSwapped: the chain with "<" and "<=" exchanged.)
OperatorOfSwapped(tok) ==
    CASE tok = <<"=", "=">> -> "None"
      [] tok = <<"<">> -> "LE"
      [] tok = <<"<", "=">> -> "LT"
      [] tok = <<">">> -> "GT"
      [] tok = <<">", "=">> -> "GE"
      [] OTHER -> "unknown"
OperatorOf(tok) ==
    CASE tok = <<"=", "=">> -> "None"
      [] tok = <<"<">> -> "LT"
      [] tok = <<"<", "=">> -> "LE"
      [] tok = <<">">> -> "GT"
      [] tok = <<">", "=">> -> "GE"
      [] OTHER -> "unknown"

\* NumberMatch.__init__(obj)
NumberMatchInit(obj) ==
    IF obj.type \in {"str", "unicode"} THEN
        IF Len(obj.s) > 0 THEN
            LET numberMatchComponents == SplitOnce(obj.s)
                two == Len(numberMatchComponents) > 1
                numIdx == IF two THEN 1 ELSE 0
                matchType == IF two THEN OperatorOf(numberMatchComponents[1])
                             ELSE "None"
            IN  IF matchType = "unknown"
                  THEN NumberFail("RuntimeError", "UnknownOperator",
                                  numberMatchComponents[1])
                ELSE IF numIdx + 1 > Len(numberMatchComponents)
                  THEN NumberFail("IndexError", "list index out of range", <<>>)
                ELSE LET parsed == LongBase16(numberMatchComponents[numIdx + 1])
                     IN  IF parsed = None
                           THEN NumberFail("RuntimeError", "InvalidNumber",
                                           numberMatchComponents[numIdx + 1])
                           ELSE NumberOk(parsed, matchType)
        ELSE NumberOk(None, "None")
    ELSE IF obj.type = "int" THEN NumberOk(Some(obj.n), "None")
    ELSE NumberFail("RuntimeError", "InvalidType", <<>>)

\* Python 2 ordering of an int against self.value: None sorts below every
\* number.
PyLess(a, b) == IF b = None THEN FALSE ELSE a[1] < b[1]
PyGreater(a, b) == IF b = None THEN TRUE ELSE a[1] > b[1]

\* NumberMatch.matches(value)
\* (NumberMatchesNoneByOperator: matches without the early return for None,
\* so that None is ordered against the reference.)
NumberMatchesNoneByOperator(self, value) ==
    IF value = None
      THEN self.value = None \/ self.matchType \in {"LT", "LE"}
    ELSE CASE self.matchType = "GE" -> PyGreater(value, self.value) \/ value = self.value
           [] self.matchType = "GT" -> PyGreater(value, self.value)
           [] self.matchType = "LE" -> PyLess(value, self.value) \/ value = self.value
           [] self.matchType = "LT" -> PyLess(value, self.value)
           [] OTHER -> value = self.value
NumberMatches(self, value) ==
    IF value = None THEN self.value = None
    ELSE CASE self.matchType = "GE" -> PyGreater(value, self.value) \/ value = self.value
           [] self.matchType = "GT" -> PyGreater(value, self.value)
           [] self.matchType = "LE" -> PyLess(value, self.value) \/ value = self.value
           [] self.matchType = "LT" -> PyLess(value, self.value)
           [] OTHER -> value = self.value

\* The descriptors and candidates of the model.
MaxNumLen == 4
NumChars == {" ", "-", "<", "=", ">", "1"}
LongNumTexts ==
    { <<"<", " ", "-", "1", "0">>, <<">", "=", " ", "7", "f">>,
      <<"~", "~", " ", "1", "0">>, <<"0", "x", "1", "f">>, <<"1", "L">>,
      <<"+", "1">>, <<"<", "=", " ", "1", " ">>, <<"-", "1", "0">>,
      <<"<", " ", "7", "f", "f", "f", "0", "0", "0", "0">>,
      <<"=", "=", " ", " ", "a">>, <<"g">>, <<"0", "x">>, <<"0">>,
      <<"<", " ", "0">>, <<" ", " ", " ", " ", " ", " ">>,
      <<"<", " ", "-", " ", "1">>, <<"\t">> }
NumberDescriptors ==
    {StrObj(s) : s \in Strings(NumChars, MaxNumLen) \cup LongNumTexts}
    \cup {[type |-> "unicode", s |-> s, n |-> 0] : s \in {<<>>, <<"1">>, <<" ">>}}
    \cup {IntObj(n) : n \in {-1, 0, 1, 16}}
    \cup {OtherObj("long"), OtherObj("dict")}
CandidateInts == {-17, -16, -1, 0, 1, 2, 16, 17}
Candidates(self) ==
    {None} \cup {Some(n) : n \in CandidateInts}
    \cup (IF self.value = None THEN {}
          ELSE {Some(self.value[1] + d) : d \in {-1, 0, 1}})

NotBuilt == [ok |-> FALSE, exc |-> "unbuilt", msg |-> "none", text |-> <<>>,
             value |-> None, matchType |-> "None"]
NoQuery == [asked |-> FALSE, value |-> None, result |-> FALSE]

InitNumber ==
    /\ numObj \in NumberDescriptors
    /\ numPred = NotBuilt
    /\ numQuery = NoQuery

\* NumberMatch(obj)
NewNumberMatch ==
    /\ numPred = NotBuilt
    /\ numPred' = NumberMatchInit(numObj)
    /\ UNCHANGED <<numObj, numQuery>>
    /\ UNCHANGED <<collectorVars, stringVars>>

\* self.matches(value) on a constructed predicate
CallNumberMatches ==
    /\ numPred.ok
    /\ \E value \in Candidates(numPred) :
          numQuery' = [asked |-> TRUE, value |-> value,
                       result |-> NumberMatches(numPred, value)]
    /\ UNCHANGED <<numObj, numPred>>
    /\ UNCHANGED <<collectorVars, stringVars>>

(***************************************************************************)
(* StringMatch                                                             *)
(***************************************************************************)

UpperLetters == <<"A", "B", "C", "D", "E", "F", "G", "H", "I", "J", "K", "L",
                  "M", "N", "O", "P", "Q", "R", "S", "T", "U", "V", "W", "X",
                  "Y", "Z">>
LowerLetters == <<"a", "b", "c", "d", "e", "f", "g", "h", "i", "j", "k", "l",
                  "m", "n", "o", "p", "q", "r", "s", "t", "u", "v", "w", "x",
                  "y", "z">>

\* matchType.lower()
LowerChar(c) ==
    IF \E i \in 1..Len(UpperLetters) : UpperLetters[i] = c
      THEN LowerLetters[CHOOSE i \in 1..Len(UpperLetters) : UpperLetters[i] = c]
      ELSE c
Lower(s) == [i \in 1..Len(s) |-> LowerChar(s[i])]

\* p in s (substring containment)
Contains(s, p) ==
    \E i \in 1..(Len(s) - Len(p) + 1) : SubSeq(s, i, i + Len(p) - 1) = p

\* A field of a structured descriptor: absent, a string, or another JSON value.
Absent == [present |-> FALSE, isString |-> FALSE, s |-> <<>>]
StringField(s) == [present |-> TRUE, isString |-> TRUE, s |-> s]
NonStringField == [present |-> TRUE, isString |-> FALSE, s |-> <<>>]

\* The descriptors of StringMatch: a text, or a structured object.
TextObj(s) == [type |-> "str", s |-> s, value |-> Absent, matchType |-> Absent]
DictObj(value, matchType) ==
    [type |-> "dict", s |-> <<>>, value |-> value, matchType |-> matchType]

\* JSONHelper.getStringChecked(obj, key, mandatory): the string of the field,
\* None for an absent optional field, a failure otherwise.
GetStringChecked(field, mandatory) ==
    IF ~field.present
      THEN [ok |-> ~mandatory, val |-> None]
      ELSE IF field.isString THEN [ok |-> TRUE, val |-> Some(field.s)]
      ELSE [ok |-> FALSE, val |-> None]

\* The nesting depth of parentheses after each prefix of p never drops below
\* zero and ends at zero.
RECURSIVE ParenDepthOk(_, _, _)
ParenDepthOk(p, i, depth) ==
    IF i > Len(p) THEN depth = 0
    ELSE IF p[i] = "(" THEN ParenDepthOk(p, i + 1, depth + 1)
    ELSE IF p[i] = ")" THEN depth > 0 /\ ParenDepthOk(p, i + 1, depth - 1)
    ELSE ParenDepthOk(p, i + 1, depth)

\* re.compile(self.value) for a pattern made of ordinary characters and
\* groups: the compiled pattern, or None for re.error (unbalanced parenthesis).
ReCompile(p) ==
    IF ParenDepthOk(p, 1, 0) THEN Some([pattern |-> p]) ELSE None

\* compiledValue.search(val) for such a pattern: the pattern without its
\* group parentheses occurs in val.
Search(compiled, val) ==
    LET p == compiled.pattern
        plain == SelectSeq(p, LAMBDA c : c \notin {"(", ")"})
    IN  Contains(val, plain)

StringOk(isPCRE, value, compiledValue) ==
    [ok |-> TRUE, exc |-> "none", msg |-> "none", text |-> <<>>,
     isPCRE |-> isPCRE, value |-> value, compiledValue |-> compiledValue]
StringFail(exc, msg, text) ==
    [ok |-> FALSE, exc |-> exc, msg |-> msg, text |-> text,
     isPCRE |-> FALSE, value |-> <<>>, compiledValue |-> None]

\* isPCRE = True and the try/except around re.compile
\* (CompiledOrErrorSwallowed: the same with re.error ignored.)
CompiledOrErrorSwallowed(value) == StringOk(TRUE, value, ReCompile(value))
CompiledOrError(value) ==
    LET compiledValue == ReCompile(value)
    IN  IF compiledValue = None
          THEN StringFail("RuntimeError", "Error in regular expression", value)
          ELSE StringOk(TRUE, value, compiledValue)

\* The short form: a text between forward slashes is a PCRE.
IsShortForm(value) == StartsWith(value, <<"/">>) /\ EndsWith(value, <<"/">>)

\* The matchType branch of the structured form.
\* (MatchTypeBranchCaseSensitive: the same without lower().)
MatchTypeBranchCaseSensitive(value, matchType) ==
    IF matchType = None THEN StringOk(FALSE, value, None)
    ELSE IF matchType[1] = <<"c", "o", "n", "t", "a", "i", "n", "s">>
      THEN StringOk(FALSE, value, None)
    ELSE IF matchType[1] = <<"p", "c", "r", "e">> THEN CompiledOrError(value)
    ELSE StringFail("RuntimeError", "UnknownOperator", matchType[1])
MatchTypeBranch(value, matchType) ==
    IF matchType = None THEN StringOk(FALSE, value, None)
    ELSE IF Lower(matchType[1]) = <<"c", "o", "n", "t", "a", "i", "n", "s">>
      THEN StringOk(FALSE, value, None)
    ELSE IF Lower(matchType[1]) = <<"p", "c", "r", "e">> THEN CompiledOrError(value)
    ELSE StringFail("RuntimeError", "UnknownOperator", matchType[1])

\* StringMatch.__init__(obj)
StringMatchInit(obj) ==
    IF obj.type \in {"str", "unicode"} THEN
        IF IsShortForm(obj.s)
          THEN CompiledOrError(SubSeq(obj.s, 2, Len(obj.s) - 1))
          ELSE StringOk(FALSE, obj.s, None)
    ELSE
        LET value == GetStringChecked(obj.value, TRUE)
            matchType == GetStringChecked(obj.matchType, FALSE)
        IN  IF ~value.ok THEN StringFail("RuntimeError", "MissingField", <<"value">>)
            ELSE IF ~matchType.ok
              THEN StringFail("RuntimeError", "MissingField", <<"matchType">>)
            ELSE MatchTypeBranch(value.val[1], matchType.val)

\* StringMatch.matches(val): the result, or the exception of calling search
\* on a compiledValue that is None.
StringMatches(self, val) ==
    IF self.isPCRE
      THEN IF self.compiledValue = None
             THEN [exc |-> "AttributeError", result |-> FALSE]
             ELSE [exc |-> "none", result |-> Search(self.compiledValue[1], val)]
      ELSE [exc |-> "none", result |-> Contains(val, self.value)]

\* StringMatch.__repr__
\* (ReprBare: the rendering without the PCRE case.)
ReprBare(self) == self.value
Repr(self) ==
    IF self.isPCRE THEN <<"/">> \o self.value \o <<"/">> ELSE self.value

\* The descriptors and candidates of the model.
MaxStrLen == 3
StrChars == {"/", "a", "("}
LongStrTexts ==
    { <<"/", "(", "a", ")", "/">>, <<"/", "(", ")", "/">>, <<"/", ")", "/">>,
      <<"(", "a", ")">>, <<"/", "a", ")", "(", "/">> }
StrTexts == Strings(StrChars, MaxStrLen) \cup LongStrTexts
MatchTypes ==
    { <<"c", "o", "n", "t", "a", "i", "n", "s">>,
      <<"C", "o", "n", "t", "a", "i", "n", "s">>,
      <<"C", "O", "N", "T", "A", "I", "N", "S">>,
      <<"p", "c", "r", "e">>, <<"P", "C", "R", "E">>, <<"P", "c", "r", "e">>,
      <<"r", "e", "g", "e", "x">>, <<"R", "E">>, <<>>,
      <<"p", "c", "r", "e", " ">> }
StringDescriptors ==
    {TextObj(s) : s \in StrTexts}
    \cup {DictObj(v, m) : v \in {StringField(s) : s \in StrTexts}
                                \cup {Absent, NonStringField},
                          m \in {StringField(t) : t \in MatchTypes} \cup {Absent}}
StringCandidates == Strings({"/", "a"}, 2)

StrNotBuilt ==
    [ok |-> FALSE, exc |-> "unbuilt", msg |-> "none", text |-> <<>>,
     isPCRE |-> FALSE, value |-> <<>>, compiledValue |-> None]
NoStrQuery == [asked |-> FALSE, val |-> <<>>, exc |-> "none", result |-> FALSE]

InitString ==
    /\ strObj \in StringDescriptors
    /\ strPred = StrNotBuilt
    /\ strQuery = NoStrQuery
    /\ strRepr = None

\* StringMatch(obj)
NewStringMatch ==
    /\ strPred = StrNotBuilt
    /\ strPred' = StringMatchInit(strObj)
    /\ UNCHANGED <<strObj, strQuery, strRepr>>
    /\ UNCHANGED <<collectorVars, numberVars>>

\* self.matches(val) on a constructed predicate
CallStringMatches ==
    /\ strPred.ok
    /\ \E val \in StringCandidates :
          LET r == StringMatches(strPred, val)
          IN  strQuery' = [asked |-> TRUE, val |-> val, exc |-> r.exc,
                           result |-> r.result]
    /\ UNCHANGED <<strObj, strPred, strRepr>>
    /\ UNCHANGED <<collectorVars, numberVars>>

\* repr(self) on a constructed predicate
CallRepr ==
    /\ strPred.ok
    /\ strRepr' = Some(Repr(strPred))
    /\ UNCHANGED <<strObj, strPred, strQuery>>
    /\ UNCHANGED <<collectorVars, numberVars>>

(***************************************************************************)
(* Specifications                                                          *)
(***************************************************************************)

\* The components a specification does not exercise stay as constructed.
IdleCollector ==
    /\ serverHost = None /\ serverAuthToken = None /\ tool = None
    /\ sigCacheDir = None /\ gets = 0
    /\ pc = "idle" /\ current_timeout = 0 /\ response = NoResponse
    /\ posts = 0 /\ sleeps = <<>> /\ outcome = "none" /\ error = NoError
IdleNumber ==
    numObj = StrObj(<<>>) /\ numPred = NotBuilt /\ numQuery = NoQuery
IdleString ==
    /\ strObj = TextObj(<<>>) /\ strPred = StrNotBuilt
    /\ strQuery = NoStrQuery /\ strRepr = None

InitSubmit == InitCollector /\ IdleNumber /\ IdleString
NextSubmit ==
    CallSubmit \/ Post \/ SleepAndRetry \/ RaiseServerError \/ Break
SpecSubmit == InitSubmit /\ [][NextSubmit]_vars

\* submit runs on one thread and every request is answered: a step that can
\* be taken is taken.
SpecSubmitFair == SpecSubmit /\ WF_vars(NextSubmit)

\* One remote operation of a Collector: submit or refresh.
NextCollector == NextSubmit \/ CallRefresh \/ Get
SpecCollector == InitSubmit /\ [][NextCollector]_vars

InitNumberMatch == IdleCollector /\ InitNumber /\ IdleString
NextNumberMatch == NewNumberMatch \/ CallNumberMatches
SpecNumberMatch == InitNumberMatch /\ [][NextNumberMatch]_vars

InitStringMatch == IdleCollector /\ IdleNumber /\ InitString
NextStringMatch == NewStringMatch \/ CallStringMatches \/ CallRepr
SpecStringMatch == InitStringMatch /\ [][NextStringMatch]_vars

(***************************************************************************)
(* Properties of Collector.submit (SpecSubmit)                             *)
(***************************************************************************)

RECURSIVE Sum(_)
Sum(seq) == IF seq = <<>> THEN 0 ELSE seq[1] + Sum(Tail(seq))

\* C1: the sleeps of one submit call are 2, 4, 8, ... in this order, none is
\* longer than 64 seconds, there are at most 6 of them (so at most 7 POSTs)
\* and they add up to at most 126 seconds; a POST follows every sleep.
C1_BackoffSchedule ==
    /\ \A i \in 1..Len(sleeps) : sleeps[i] = 2 ^ i /\ sleeps[i] <= 64
    /\ Len(sleeps) <= 6
    /\ posts <= 7
    /\ posts <= Len(sleeps) + 1
    /\ Sum(sleeps) <= 126
    /\ (pc = "post" => posts = Len(sleeps))

\* submit gave up after the longest schedule: 6 retries, 7 POSTs, 126 seconds.
C1_Witness ==
    /\ pc = "done" /\ outcome = "raised"
    /\ sleeps = <<2, 4, 8, 16, 32, 64>>
    /\ posts = 7
    /\ Sum(sleeps) = 126
    /\ response.status_code \in {500, 502, 503, 504}

\* C2: a response whose status is neither 201 nor 500/502/503/504 makes the
\* next step of submit the raise of the server error for that response, with
\* no sleep and no POST; and nothing is sent or slept once submit has ended.
C2_FailsImmediately ==
    [][ /\ (pc = "respond" /\ response.status_code \notin {201, 500, 502, 503, 504})
            => /\ pc' = "done" /\ outcome' = "raised"
               /\ error' = [type |-> "RuntimeError",
                            status_code |-> response.status_code,
                            text |-> response.text, setting |-> ""]
               /\ sleeps' = sleeps /\ posts' = posts
        /\ (pc = "done" => sleeps' = sleeps /\ posts' = posts /\ pc' = "done")
      ]_vars

\* A 404 after three retries ended the call at once.
C2_Witness ==
    /\ pc = "done" /\ outcome = "raised"
    /\ response.status_code = 404 /\ error.status_code = 404
    /\ Len(sleeps) = 3 /\ posts = 4

\* C11: every submit call ends; one that received a response returns exactly
\* when its last response has status 201 and otherwise raises the server
\* error with the status code and text of that response; the last response
\* answers the last POST (every earlier POST was followed by a sleep), and
\* nothing is sent once the call has ended.
C11_TerminatesByLastResponse ==
    /\ <>(pc = "done")
    /\ []((pc = "done" /\ posts > 0) =>
            /\ outcome \in {"returned", "raised"}
            /\ outcome = "returned" <=> response.status_code = 201
            /\ outcome = "returned" => error.type = "none"
            /\ outcome = "raised" =>
                  error = [type |-> "RuntimeError",
                           status_code |-> response.status_code,
                           text |-> response.text, setting |-> ""]
            /\ posts = Len(sleeps) + 1)
    /\ [][pc = "done" =>
            /\ posts' = posts /\ response' = response
            /\ outcome' = outcome /\ error' = error]_vars

\* A 201 after two retries ended the call with a normal return.
C11_Witness ==
    /\ pc = "done" /\ outcome = "returned"
    /\ response.status_code = 201 /\ posts = 3 /\ sleeps = <<2, 4>>

\* C12: with serverHost, serverAuthToken or tool missing, submit and refresh
\* send no request and end with the RuntimeError that names a missing
\* setting.
C12_NoRequestWithoutSettings ==
    LET missing ==
            {n \in {"serverHost", "serverAuthToken", "tool"} :
                \/ n = "serverHost" /\ serverHost = None
                \/ n = "serverAuthToken" /\ serverAuthToken = None
                \/ n = "tool" /\ tool = None}
    IN  missing # {} =>
          /\ posts = 0 /\ gets = 0
          /\ pc \in {"idle", "done"}
          /\ pc = "done" =>
                /\ outcome = "raised" /\ error.type = "RuntimeError"
                /\ error.setting \in missing

(***************************************************************************)
(* Properties of NumberMatch (SpecNumberMatch)                             *)
(***************************************************************************)

NumBuilt == numPred # NotBuilt
NumFromText == numObj.type \in {"str", "unicode"}

\* C3: a predicate has an absent reference exactly when it was built from
\* the empty string; it then matches None and no integer; a predicate with a
\* present reference does not match None, whatever its operator.
C3_AbsentReference ==
    /\ numPred.ok =>
          (numPred.value = None <=> (NumFromText /\ numObj.s = <<>>))
    /\ (numPred.ok /\ numQuery.asked) =>
          /\ numPred.value = None =>
                (numQuery.result <=> numQuery.value = None)
          /\ (numPred.value # None /\ numQuery.value = None) =>
                ~numQuery.result

\* matches(0) on the predicate of the empty string answered False.
C3_Witness ==
    /\ numObj = StrObj(<<>>) /\ numPred.ok /\ numPred.value = None
    /\ numQuery.asked /\ numQuery.value = Some(0) /\ ~numQuery.result

\* The operator a descriptor asks for: its first token when it has two,
\* "==" otherwise.
AskedOperator ==
    IF NumFromText /\ Len(SplitOnce(numObj.s)) = 2
      THEN SplitOnce(numObj.s)[1] ELSE <<"=", "=">>

\* C4: with a present reference r and an integer candidate c, matches(c) is
\* the comparison "c op r" of the operator the descriptor names ("==" for a
\* bare number or an integer descriptor); "< 7fff0000" has reference
\* 0x7fff0000.
C4_ComparisonAsNamed ==
    /\ (numPred.ok /\ numPred.value # None /\ numQuery.asked
           /\ numQuery.value # None) =>
          LET c == numQuery.value[1]
              r == numPred.value[1]
              op == AskedOperator
          IN  /\ op \in {<<"=", "=">>, <<"<">>, <<"<", "=">>, <<">">>, <<">", "=">>}
              /\ op = <<"=", "=">> => (numQuery.result <=> c = r)
              /\ op = <<"<">> => (numQuery.result <=> c < r)
              /\ op = <<"<", "=">> => (numQuery.result <=> c <= r)
              /\ op = <<">">> => (numQuery.result <=> c > r)
              /\ op = <<">", "=">> => (numQuery.result <=> c >= r)
    /\ (numPred.ok /\ numObj.type = "int") => numPred.value = Some(numObj.n)
    /\ (NumBuilt /\ numObj = StrObj(<<"<", " ", "7", "f", "f", "f", "0", "0", "0", "0">>))
          => numPred.ok /\ numPred.value = Some(2147418112)

\* "<= 1" answered True at the reference itself.
C4_Witness ==
    /\ numObj = StrObj(<<"<", "=", " ", "1">>) /\ numPred.ok
    /\ numQuery.asked /\ numQuery.value = Some(1) /\ numQuery.result

\* C5: the construction from a text succeeds or raises the RuntimeError for
\* an unknown operator or for an invalid number, and nothing else.
C5_DeclaredErrorsOnly ==
    (NumBuilt /\ NumFromText) =>
        \/ numPred.ok
        \/ /\ numPred.exc = "RuntimeError"
           /\ numPred.msg \in {"UnknownOperator", "InvalidNumber"}

\* The number token of a text descriptor (its last token), <<>> if none.
NumberToken ==
    LET toks == SplitOnce(numObj.s)
    IN  IF NumFromText /\ Len(toks) >= 1 THEN toks[Len(toks)] ELSE <<>>
OperatorTokenOk ==
    LET toks == SplitOnce(numObj.s)
    IN  Len(toks) = 2 => OperatorOf(toks[1]) # "unknown"

\* C6 as stated: a predicate built from a text has an absent or non-negative
\* reference, and a number token that starts with a minus sign is rejected
\* with the invalid-number error.
C6_NonNegativeReference ==
    (NumBuilt /\ NumFromText) =>
        /\ numPred.ok => (numPred.value = None \/ numPred.value[1] >= 0)
        /\ (OperatorTokenOk /\ Len(NumberToken) >= 1 /\ NumberToken[1] = "-")
              => (~numPred.ok /\ numPred.msg = "InvalidNumber")

\* C6 amended: the reference of a predicate built from a text is absent or
\* an integer that may be negative: a number token made of a minus sign and
\* hex digits is accepted and gives minus the base-16 value of the digits
\* ("-10" and "< -10" give -16); the reference is negative only if the number
\* token carries a minus sign.
C6_SignedReference ==
    (NumBuilt /\ NumFromText) =>
        /\ (numPred.ok /\ numPred.value # None /\ numPred.value[1] < 0)
              => \E i \in 1..Len(NumberToken) : NumberToken[i] = "-"
        /\ (/\ OperatorTokenOk
            /\ Len(NumberToken) >= 2 /\ NumberToken[1] = "-"
            /\ \A i \in 2..Len(NumberToken) : NumberToken[i] \in HexDigits)
              => /\ numPred.ok
                 /\ numPred.value = Some(0 - HexValue(Tail(NumberToken)))
        /\ numObj.s \in {<<"-", "1", "0">>, <<"<", " ", "-", "1", "0">>}
              => numPred.value = Some(-16)

\* "< -10" was accepted with the reference -16.
C6_Witness ==
    /\ numObj = StrObj(<<"<", " ", "-", "1", "0">>)
    /\ numPred.ok /\ numPred.value = Some(-16) /\ numPred.matchType = "LT"

(***************************************************************************)
(* Properties of StringMatch (SpecStringMatch)                             *)
(***************************************************************************)

StrBuilt == strPred # StrNotBuilt

\* C7: a text descriptor d gives regex mode with pattern d[1:-1] (or the
\* regex error) if it starts and ends with "/" and has at least 2
\* characters, and literal mode with pattern d in every other case, "/"
\* included.
C7_ShortFormNeedsTwoChars ==
    (StrBuilt /\ strObj.type = "str") =>
        LET d == strObj.s
        IN  IF Len(d) >= 2 /\ d[1] = "/" /\ d[Len(d)] = "/"
              THEN strPred.ok =>
                      /\ strPred.isPCRE
                      /\ strPred.value = SubSeq(d, 2, Len(d) - 1)
              ELSE strPred.ok /\ ~strPred.isPCRE /\ strPred.value = d

ContainsSpellings ==
    { <<"c", "o", "n", "t", "a", "i", "n", "s">>,
      <<"C", "o", "n", "t", "a", "i", "n", "s">>,
      <<"C", "O", "N", "T", "A", "I", "N", "S">> }
PcreSpellings ==
    { <<"p", "c", "r", "e">>, <<"P", "C", "R", "E">>, <<"P", "c", "r", "e">> }

\* C8: for a structured descriptor with a string value v, an absent
\* matchType or one spelling "contains" in any case gives literal mode with
\* pattern v (slashes kept, nothing compiled); one spelling "pcre" in any
\* case gives regex mode compiled from v, or the regex error; any other
\* matchType fails with the unknown-operator error naming it.
C8_ModeFromMatchType ==
    (StrBuilt /\ strObj.type = "dict" /\ strObj.value.present
        /\ strObj.value.isString) =>
        LET v == strObj.value.s
            m == strObj.matchType
        IN  IF ~m.present \/ m.s \in ContainsSpellings
              THEN /\ strPred.ok /\ ~strPred.isPCRE
                   /\ strPred.value = v /\ strPred.compiledValue = None
            ELSE IF m.s \in PcreSpellings
              THEN \/ /\ strPred.ok /\ strPred.isPCRE /\ strPred.value = v
                      /\ strPred.compiledValue = Some([pattern |-> v])
                   \/ /\ ~strPred.ok /\ strPred.exc = "RuntimeError"
                      /\ strPred.msg = "Error in regular expression"
            ELSE /\ ~strPred.ok /\ strPred.exc = "RuntimeError"
                 /\ strPred.msg = "UnknownOperator" /\ strPred.text = m.s

\* {"value": "/a/", "matchType": "Contains"} is a literal with pattern "/a/".
C8_Witness ==
    /\ strObj = DictObj(StringField(<<"/", "a", "/">>),
                        StringField(<<"C", "o", "n", "t", "a", "i", "n", "s">>))
    /\ strPred.ok /\ ~strPred.isPCRE /\ strPred.value = <<"/", "a", "/">>

\* C9: a constructed predicate has a compiled pattern exactly when it is in
\* regex mode, its pattern is then well formed (a malformed one made the
\* construction fail), and matches never raises.
C9_CompiledIffRegex ==
    /\ strPred.ok => (strPred.compiledValue # None <=> strPred.isPCRE)
    /\ (strPred.ok /\ strPred.isPCRE) => ParenDepthOk(strPred.value, 1, 0)
    /\ strQuery.asked => strQuery.exc = "none"
    /\ (StrBuilt /\ strObj.type = "str"
           /\ strObj.s \in {<<"/", "(", "/">>, <<"/", ")", "/">>})
          => (~strPred.ok /\ strPred.msg = "Error in regular expression")

\* A regex-mode predicate answered a query.
C9_Witness ==
    /\ strPred.ok /\ strPred.isPCRE /\ strPred.compiledValue # None
    /\ strQuery.asked /\ strQuery.result

\* The rendered texts of the predicates of each mode that can be built.
RenderedAs(isPCRE, fromTypes) ==
    { Repr(StringMatchInit(d)) :
        d \in { e \in StringDescriptors :
                  /\ e.type \in fromTypes
                  /\ StringMatchInit(e).ok
                  /\ StringMatchInit(e).isPCRE = isPCRE } }
RegexRendered == RenderedAs(TRUE, {"str", "dict"})
LiteralRendered == RenderedAs(FALSE, {"str", "dict"})
LiteralRenderedFromText == RenderedAs(FALSE, {"str"})

ReprAsSpecified ==
    strRepr # None =>
        /\ ~strPred.isPCRE => strRepr = Some(strPred.value)
        /\ strPred.isPCRE => strRepr = Some(<<"/">> \o strPred.value \o <<"/">>)

====
